---- MODULE Spec2Model ----
(***************************************************************************)
(* Model of the Snowpipe Streaming channel client                          *)
(* (src/thermal_streaming_client.py, class SnowpipeStreamingClient) and of *)
(* the orchestrator that drives it (src/adsb_main.py, ADSBStreamingApp).   *)
(*                                                                         *)
(* The client is a single-threaded object: every method is one atomic      *)
(* action, except wait_for_commit, whose poll loop sleeps between polls    *)
(* and is one action per loop iteration.  The HTTP server, the credential  *)
(* subsystem and the sensor are the environment: what they answer is an    *)
(* input of the action, drawn from a small set.                            *)
(***************************************************************************)
EXTENDS Integers, Sequences, FiniteSets, TLC

(***************************************************************************)
(* Bounds of the model.                                                    *)
(***************************************************************************)
\* the clock stops advancing here (seconds)
MaxTime == 3000
\* wait_for_commit is started only if its loop ends by this time (seconds)
MaxWaitTime == 2500
\* no append is answered by success once stats.total_batches has reached this
MaxBatches == 2
\* no append is answered by failure once stats.errors has reached this
MaxErrors == 1
\* while a token is being obtained the clock advances second by second, up
\* to this many seconds past MaxTime
MaxElapse == 2

\* the moments (seconds) at which the clock is read between two statements
Times == {0, 2500, 2900, 3000}

(***************************************************************************)
(* Python values.                                                          *)
(***************************************************************************)
\* Python's None (also: a key absent from a JSON object read with .get())
None == "None"

\* None / JSON null in an integer slot, and a key absent from a JSON object
NullInt == -1
AbsentInt == -2

\* Python truthiness of the strings the client tests with `not x` / `x or y`:
\* None and the empty string are falsy.
Truthy(x) == x # None /\ x # ""

\* Python's `a or b`
PyOr(a, b) == IF Truthy(a) THEN a ELSE b

\* str(n) for a non-negative integer (line 317: str(new_offset))
Digit(d) == CASE d = 0 -> "0" [] d = 1 -> "1" [] d = 2 -> "2" [] d = 3 -> "3"
              [] d = 4 -> "4" [] d = 5 -> "5" [] d = 6 -> "6" [] d = 7 -> "7"
              [] d = 8 -> "8" [] d = 9 -> "9"

RECURSIVE PyStr(_)
PyStr(n) == IF n < 10 THEN Digit(n) ELSE PyStr(n \div 10) \o Digit(n % 10)

(***************************************************************************)
(* State.                                                                  *)
(***************************************************************************)
VARIABLES
    \* SnowpipeStreamingClient fields (__init__, lines 80-100)
    control_host, ingest_host, continuation_token, offset_token,
    scoped_token, token_expiry, stats,
    \* time.time(), in seconds since the client was constructed
    now,
    \* the client call that has just ended and whose outcome its caller has not
    \* yet taken: what it was given, what it sent, how it ended (NoOp: none)
    lastOp,
    \* wait_for_commit's frame: arguments, locals and position
    wfc,
    \* ADSBStreamingApp: position in run() ("idle": no application, the client
    \* is called directly), self.running, the batch read in this iteration,
    \* run()'s return value, and what the run has done so far
    app_pc, running, readings, retcode, app_log,
    \* the append_rows calls in progress on other threads of the caller: for
    \* each thread its position in the call and the call's locals
    threads,
    \* the client instances constructed so far, this client first: for each
    \* its configured base channel name, its construction time (milliseconds)
    \* and its channel_name
    instances,
    \* ADSBSensor fields (__init__, lines 50-60): the constructor's simulate
    \* flag, the last document fetched and the clock reading of that fetch
    simulate, _last_data, _last_fetch_time,
    \* the _fetch_aircraft_data call that ended last: how the request was
    \* answered, how the call ended and what it returned, and the cache and
    \* the clock it found (NoFetch: none yet)
    fetched

clientVars == <<control_host, ingest_host, continuation_token, offset_token,
                scoped_token, token_expiry, stats>>
appVars == <<app_pc, running, readings, retcode, app_log>>
sensorVars == <<simulate, _last_data, _last_fetch_time, fetched>>
vars == <<clientVars, now, lastOp, wfc, appVars, threads, instances, sensorVars>>

(***************************************************************************)
(* Program constants and the environment's values.                         *)
(***************************************************************************)
\* line 128: self.token_expiry = time.time() + 3000
TokenReuseWindow == 3000

\* the control-plane URL built from config['account'] (lines 140-141)
ControlHost == "https://acct.snowflakecomputing.com"

\* continuation tokens the server may issue
ContinuationTokens == {"ct1", "ct2"}

\* last_committed_offset_token values an open response may carry
CommittedOffsets == {2}

\* committed_offset_token values a status response may carry
StatusOffsets == {1, 2, 3}

\* the credential subsystem (jwt_auth.get_scoped_token) either raises or
\* returns a fresh token; a token is represented by the time it was issued
CredFail == "CredFail"
CredOutcomes == {CredFail, "issue"}
IssuedToken(t) == t

\* row records have one field (enough for the encoder)
\* the batches a caller may pass (the empty batch included)
Batches == {<<>>, <<[icao_hex |-> "a1"]>>, <<[icao_hex |-> "b22"], [icao_hex |-> "a1"]>>}

(***************************************************************************)
(* RowBatchEncoder: lines 328-329.                                         *)
(***************************************************************************)
\* json.dumps(row) of a one-field record
JsonDumps(row) == "{\"icao_hex\": \"" \o row.icao_hex \o "\"}"

\* '\n'.join(json.dumps(row) for row in rows)
RECURSIVE Ndjson(_)
Ndjson(rows) ==
    IF Len(rows) = 0 THEN ""
    ELSE IF Len(rows) = 1 THEN JsonDumps(rows[1])
    ELSE JsonDumps(rows[1]) \o "\n" \o Ndjson(Tail(rows))

(***************************************************************************)
(* The client object as a record, and the result of one method call.       *)
(***************************************************************************)
Self == [control_host |-> control_host, ingest_host |-> ingest_host,
         continuation_token |-> continuation_token, offset_token |-> offset_token,
         scoped_token |-> scoped_token, token_expiry |-> token_expiry,
         stats |-> stats]

\* one HTTP request as it leaves the client, with the answer it gets: the
\* status, and the continuation token and the offset the answer carries
Request(method, host, path, ct, off, body, status, reply) ==
    [method |-> method, host |-> host, path |-> path, continuationToken |-> ct,
     offsetToken |-> off, body |-> body, status |-> status, reply |-> reply]

Reply(nct, offset) == [next_continuation_token |-> nct, offset |-> offset]
NoReply == Reply(None, NullInt)

\* the outcome of a call: the client afterwards, "ok" or the exception raised,
\* the value returned, the requests sent, and what the token check did
Result(c, outcome, ret, requests, tk) ==
    [c |-> c, outcome |-> outcome, ret |-> ret, num |-> NullInt, requests |-> requests,
     credCalled |-> tk.credCalled, refreshed |-> tk.refreshed, tokenAge |-> tk.tokenAge]

\* a call that returns a number (ret "int"), or a channel status whose
\* committed_offset_token is the number (ret "status")
IntResult(r, kind, n) == [r EXCEPT !.ret = kind, !.num = n]

\* no token check took place
NoTokenCheck == [credCalled |-> FALSE, refreshed |-> FALSE, tokenAge |-> NullInt]

(***************************************************************************)
(* _ensure_valid_token: lines 122-129.                                     *)
(***************************************************************************)
\* mutant: the token is refreshed 600 s before its expiry mark
NeedsRefresh_WithMargin(c, t) ==
    \/ c.scoped_token = NullInt
    \/ (c.token_expiry # NullInt /\ c.token_expiry # 0 /\ t >= c.token_expiry - 600)

\* line 124
NeedsRefresh(c, t) ==
    \/ c.scoped_token = NullInt
    \/ (c.token_expiry # NullInt /\ c.token_expiry # 0 /\ t >= c.token_expiry)

\* tokenAge: how long ago the cached token was issued (NullInt: none cached)
\* mutant: a failed acquisition still moves the expiry mark
EnsureValidToken_MarksFailure(c, t, cred) ==
    LET age == IF c.scoped_token = NullInt THEN NullInt ELSE t - c.scoped_token
    IN  IF NeedsRefresh(c, t)
        THEN IF cred = CredFail
             THEN [c |-> [c EXCEPT !.token_expiry = t + TokenReuseWindow], raised |-> TRUE,
                   credCalled |-> TRUE, refreshed |-> FALSE, tokenAge |-> age]
             ELSE [c |-> [c EXCEPT !.scoped_token = IssuedToken(t),
                                   !.token_expiry = t + TokenReuseWindow],
                   raised |-> FALSE,
                   credCalled |-> TRUE, refreshed |-> TRUE, tokenAge |-> age]
        ELSE [c |-> c, raised |-> FALSE,
              credCalled |-> FALSE, refreshed |-> FALSE, tokenAge |-> age]

EnsureValidToken(c, t, cred) ==
    LET age == IF c.scoped_token = NullInt THEN NullInt ELSE t - c.scoped_token
    IN  IF NeedsRefresh(c, t)
        THEN IF cred = CredFail
             THEN [c |-> c, raised |-> TRUE,
                   credCalled |-> TRUE, refreshed |-> FALSE, tokenAge |-> age]
             ELSE [c |-> [c EXCEPT !.scoped_token = IssuedToken(t),
                                   !.token_expiry = t + TokenReuseWindow],
                   raised |-> FALSE,
                   credCalled |-> TRUE, refreshed |-> TRUE, tokenAge |-> age]
        ELSE [c |-> c, raised |-> FALSE,
              credCalled |-> FALSE, refreshed |-> FALSE, tokenAge |-> age]

(***************************************************************************)
(* HTTP responses.  A request is answered by a 2xx response, by a 4xx or   *)
(* 5xx response (raise_for_status raises HTTPError) or not at all          *)
(* (ConnectionError / Timeout); all three failures are RequestException.   *)
(***************************************************************************)
FailStatuses == {"4xx", "5xx", "transport"}

\* a response body as a sequence of pieces: whitespace characters and
\* maximal runs of other characters
Whitespace == {" ", "\n", "\t"}

\* str.strip()
RECURSIVE LStrip(_)
LStrip(txt) ==
    IF txt # <<>> /\ Head(txt) \in Whitespace THEN LStrip(Tail(txt)) ELSE txt

RECURSIVE RStrip(_)
RStrip(txt) ==
    IF txt # <<>> /\ txt[Len(txt)] \in Whitespace
    THEN RStrip(SubSeq(txt, 1, Len(txt) - 1)) ELSE txt

RECURSIVE Concat(_)
Concat(txt) == IF txt = <<>> THEN "" ELSE Head(txt) \o Concat(Tail(txt))

Strip(txt) == Concat(RStrip(LStrip(txt)))

\* what the hostname endpoint may answer
DiscoverResponse(status, ctype_json, json_ok, hostname, ih, text) ==
    [status |-> status, ctype_json |-> ctype_json, json_ok |-> json_ok,
     hostname |-> hostname, ingest_host |-> ih, text |-> text]

DiscoverResponses ==
    {DiscoverResponse(s, FALSE, FALSE, None, None, <<>>) : s \in FailStatuses}
    \cup {DiscoverResponse("2xx", TRUE, TRUE, h, i, <<>>) :
              h \in {None, "", "h1.ingest"}, i \in {None, "h2.ingest"}}
    \cup {DiscoverResponse("2xx", TRUE, FALSE, None, None, txt) :
              txt \in {<<"h1.ingest">>, <<>>}}
    \cup {DiscoverResponse("2xx", FALSE, FALSE, None, None, txt) :
              txt \in {<<"h1.ingest">>, <<" ", "h2.ingest", "\n">>, <<>>, <<" ", "\n">>}}

\* what the open-channel endpoint may answer; channel_status is "absent",
\* "null" or "object", and lcot is its last_committed_offset_token
OpenResponse(status, json_ok, nct, cs, lcot) ==
    [status |-> status, json_ok |-> json_ok, next_continuation_token |-> nct,
     channel_status |-> cs, last_committed_offset_token |-> lcot]

OpenResponses ==
    {OpenResponse(s, FALSE, None, "absent", NullInt) : s \in FailStatuses}
    \cup {OpenResponse("2xx", FALSE, None, "absent", NullInt)}
    \cup {OpenResponse("2xx", TRUE, "ct1", "null", NullInt)}
    \cup {OpenResponse("2xx", TRUE, nct, "absent", NullInt) : nct \in {"ct1", None}}
    \cup {OpenResponse("2xx", TRUE, nct, "object", o) :
              nct \in ContinuationTokens \cup {None}, o \in CommittedOffsets \cup {NullInt}}

\* what the append endpoint may answer
AppendResponse(status, json_ok, nct) ==
    [status |-> status, json_ok |-> json_ok, next_continuation_token |-> nct]

AppendResponses ==
    {AppendResponse(s, FALSE, None) : s \in FailStatuses}
    \cup {AppendResponse("2xx", FALSE, None)}
    \cup {AppendResponse("2xx", TRUE, nct) : nct \in ContinuationTokens \cup {None}}

\* what the bulk-channel-status endpoint may answer; listed says whether
\* channel_statuses has an entry for this channel
StatusResponse(status, json_ok, listed, cot) ==
    [status |-> status, json_ok |-> json_ok, listed |-> listed,
     committed_offset_token |-> cot]

StatusResponses ==
    {StatusResponse(s, FALSE, FALSE, AbsentInt) : s \in FailStatuses}
    \cup {StatusResponse("2xx", FALSE, FALSE, AbsentInt)}
    \cup {StatusResponse("2xx", TRUE, FALSE, AbsentInt)}
    \cup {StatusResponse("2xx", TRUE, TRUE, o) :
              o \in StatusOffsets \cup {NullInt, AbsentInt}}

(***************************************************************************)
(* discover_ingest_host: lines 131-191.                                    *)
(***************************************************************************)
\* lines 163-168 and 176-179: the hostname read from a 2xx response
\* mutant: the body text is taken as it is, not stripped
DiscoveredHost_NoStrip(resp) ==
    IF resp.ctype_json /\ resp.json_ok
    THEN PyOr(resp.hostname, resp.ingest_host)
    ELSE Concat(resp.text)

DiscoveredHost(resp) ==
    IF resp.ctype_json /\ resp.json_ok
    THEN PyOr(resp.hostname, resp.ingest_host)
    ELSE Strip(resp.text)

DiscoverIngestHost(c, t, cred, resp) ==
    LET c1  == [c EXCEPT !.control_host = ControlHost]
        tk  == EnsureValidToken(c1, t, cred)
        req == Request("GET", ControlHost, "hostname", None, None, "", resp.status,
                       NoReply)
        c2  == [tk.c EXCEPT !.ingest_host = DiscoveredHost(resp)]
    IN  IF tk.raised THEN Result(tk.c, "CredentialError", None, <<>>, tk)
        ELSE IF resp.status # "2xx"
        THEN Result(tk.c, "RequestException", None, <<req>>, tk)
        ELSE IF Truthy(c2.ingest_host)
        THEN Result(c2, "ok", c2.ingest_host, <<req>>, tk)
        ELSE Result(c2, "ValueError", None, <<req>>, tk)

(***************************************************************************)
(* open_channel: lines 193-258.                                            *)
(***************************************************************************)
\* mutant: the `if self.offset_token is None` default of lines 241-242 left out
InitialOffset_NoDefault(resp) == resp.last_committed_offset_token

\* lines 237-242: the offset an open response initialises offset_token to
InitialOffset(resp) ==
    IF resp.channel_status = "object" /\ resp.last_committed_offset_token # NullInt
    THEN resp.last_committed_offset_token
    ELSE 0

\* lines 203-258: the part of open_channel after the ingest host is known;
\* first is the token check discovery made, if discovery ran
\* mutant: a token is made up when the response has none
OpenedToken_MadeUp(resp) ==
    IF resp.next_continuation_token = None THEN "ct1" ELSE resp.next_continuation_token

\* line 236: data.get('next_continuation_token')
OpenedToken(resp) == resp.next_continuation_token

OpenHandshake(c, t, cred, resp, sent, first) ==
    LET tk0 == EnsureValidToken(c, t, cred)
        tk  == IF first = NoTokenCheck THEN tk0
               ELSE [tk0 EXCEPT !.credCalled = first.credCalled \/ tk0.credCalled,
                                !.refreshed = first.refreshed \/ tk0.refreshed,
                                !.tokenAge = first.tokenAge]
        req == Request("PUT", c.ingest_host, "channel", None, None, "{}", resp.status,
                       Reply(resp.next_continuation_token,
                             resp.last_committed_offset_token))
        c1  == [tk.c EXCEPT !.continuation_token = OpenedToken(resp)]
        c2  == [c1 EXCEPT !.offset_token = InitialOffset(resp)]
    IN  IF tk.raised THEN Result(tk.c, "CredentialError", None, sent, tk)
        ELSE IF resp.status # "2xx" \/ ~resp.json_ok
        THEN Result(tk.c, "RequestException", None, Append(sent, req), tk)
        ELSE IF resp.channel_status = "null"
        THEN Result(c1, "AttributeError", None, Append(sent, req), tk)
        ELSE Result(c2, "ok", "data", Append(sent, req), tk)

OpenChannel(c, t, cred, dresp, resp) ==
    IF Truthy(c.ingest_host)
    THEN OpenHandshake(c, t, cred, resp, <<>>, NoTokenCheck)
    ELSE LET d == DiscoverIngestHost(c, t, cred, dresp)
         IN  IF d.outcome # "ok" THEN d
             ELSE OpenHandshake(d.c, t, cred, resp, d.requests,
                                [credCalled |-> d.credCalled, refreshed |-> d.refreshed,
                                 tokenAge |-> d.tokenAge])

(***************************************************************************)
(* append_rows: lines 278-370, and insert_rows: lines 260-276.             *)
(***************************************************************************)
\* line 301
NewOffset(c) == c.offset_token + 1

\* line 350
NextContinuationToken(c, resp) == resp.next_continuation_token

\* lines 356-358
\* mutant: batches are counted per row
StatsAfterSuccess_BatchPerRow(st, rows) ==
    [st EXCEPT !.total_rows_sent = @ + Len(rows),
               !.total_batches = @ + Len(rows),
               !.total_bytes_sent = @ + Len(Ndjson(rows))]

StatsAfterSuccess(st, rows) ==
    [st EXCEPT !.total_rows_sent = @ + Len(rows),
               !.total_batches = @ + 1,
               !.total_bytes_sent = @ + Len(Ndjson(rows))]

\* mutant: the failure is not counted
StatsAfterFailure_NotCounted(st) == st

\* line 366
StatsAfterFailure(st) == [st EXCEPT !.errors = @ + 1]

\* mutant: the offset advances by the number of rows sent
AfterAppendSuccess_CountsRows(c, resp, new_offset, rows) ==
    [c EXCEPT !.continuation_token = NextContinuationToken(c, resp),
              !.offset_token = c.offset_token + Len(rows),
              !.stats = StatsAfterSuccess(c.stats, rows)]

\* lines 347-353: the client after a 2xx answer to the request for new_offset
AfterAppendSuccess(c, resp, new_offset, rows) ==
    [c EXCEPT !.continuation_token = NextContinuationToken(c, resp),
              !.offset_token = new_offset,
              !.stats = StatsAfterSuccess(c.stats, rows)]

\* mutant: the offset is advanced before the request is known to have failed
AfterAppendFailure_AdvancesOffset(c) ==
    [c EXCEPT !.stats = StatsAfterFailure(c.stats), !.offset_token = @ + 1]

\* mutant: the continuation token is dropped when the request fails
AfterAppendFailure_DropsToken(c) ==
    [c EXCEPT !.stats = StatsAfterFailure(c.stats), !.continuation_token = None]

\* lines 365-370: the client after a RequestException
AfterAppendFailure(c) == [c EXCEPT !.stats = StatsAfterFailure(c.stats)]

\* lines 301-338: the request append_rows sends for rows
AppendRequest(c, rows, resp) ==
    Request("POST", c.ingest_host, "rows", c.continuation_token,
            PyStr(NewOffset(c)), Ndjson(rows), resp.status,
            Reply(resp.next_continuation_token, NullInt))

\* mutant: the empty batch is not special
IsEmptyBatch_Never(rows) == FALSE

\* lines 270 and 289: `if not rows`
IsEmptyBatch(rows) == rows = <<>>

\* mutant: only the ingest host is looked at
NotOpened_HostOnly(c) == ~Truthy(c.ingest_host)

\* line 295: if not self.ingest_host or not self.continuation_token
NotOpened(c) == ~Truthy(c.ingest_host) \/ ~Truthy(c.continuation_token)

\* mutant: a request that fails is sent a second time
AppendRows_RetriesOnFailure(c, t, rows, cred, resp) ==
    LET tk  == EnsureValidToken(c, t, cred)
        new_offset == NewOffset(tk.c)
        req == AppendRequest(tk.c, rows, resp)
    IN  IF IsEmptyBatch(rows) THEN Result(c, "ok", "{}", <<>>, NoTokenCheck)
        ELSE IF NotOpened(c)
        THEN Result(c, "RuntimeError", None, <<>>, NoTokenCheck)
        ELSE IF tk.raised THEN Result(tk.c, "CredentialError", None, <<>>, tk)
        ELSE IF resp.status # "2xx" \/ ~resp.json_ok
        THEN Result(AfterAppendFailure(tk.c), "RequestException", None, <<req, req>>, tk)
        ELSE Result(AfterAppendSuccess(tk.c, resp, new_offset, rows), "ok", "data",
                    <<req>>, tk)

\* lines 289-370
AppendRows(c, t, rows, cred, resp) ==
    LET tk  == EnsureValidToken(c, t, cred)
        new_offset == NewOffset(tk.c)
        req == AppendRequest(tk.c, rows, resp)
    IN  IF IsEmptyBatch(rows) THEN Result(c, "ok", "{}", <<>>, NoTokenCheck)
        ELSE IF NotOpened(c)
        THEN Result(c, "RuntimeError", None, <<>>, NoTokenCheck)
        ELSE IF tk.raised THEN Result(tk.c, "CredentialError", None, <<>>, tk)
        ELSE IF resp.status # "2xx" \/ ~resp.json_ok
        THEN Result(AfterAppendFailure(tk.c), "RequestException", None, <<req>>, tk)
        ELSE Result(AfterAppendSuccess(tk.c, resp, new_offset, rows), "ok", "data",
                    <<req>>, tk)

InsertRows(c, t, rows, cred, resp) ==
    IF IsEmptyBatch(rows) THEN IntResult(Result(c, "ok", None, <<>>, NoTokenCheck), "int", 0)
    ELSE LET a == AppendRows(c, t, rows, cred, resp)
         IN  IF a.outcome = "ok" THEN IntResult(a, "int", Len(rows)) ELSE a

(***************************************************************************)
(* get_channel_status: lines 372-420, and close_channel: lines 456-461.    *)
(***************************************************************************)
\* lines 408-414: the channel_status returned, as its committed_offset_token
\* slot (AbsentInt when the dict has no such key)
ChannelStatusOf(resp) ==
    IF resp.listed THEN resp.committed_offset_token ELSE AbsentInt

\* mutant: the client adopts the committed offset the server reports
GetChannelStatus_SyncsOffset(c, t, cred, resp) ==
    LET tk  == EnsureValidToken(c, t, cred)
        req == Request("POST", c.ingest_host, "bulk-channel-status", None, None,
                       "channel_names", resp.status,
                       Reply(None, ChannelStatusOf(resp)))
        c2  == [tk.c EXCEPT !.offset_token =
                    IF ChannelStatusOf(resp) >= 0 THEN ChannelStatusOf(resp) ELSE @]
    IN  IF ~Truthy(c.ingest_host)
        THEN Result(c, "RuntimeError", None, <<>>, NoTokenCheck)
        ELSE IF tk.raised THEN Result(tk.c, "CredentialError", None, <<>>, tk)
        ELSE IF resp.status # "2xx" \/ ~resp.json_ok
        THEN Result(tk.c, "RequestException", None, <<req>>, tk)
        ELSE IntResult(Result(c2, "ok", None, <<req>>, tk), "status", ChannelStatusOf(resp))

GetChannelStatus(c, t, cred, resp) ==
    LET tk  == EnsureValidToken(c, t, cred)
        req == Request("POST", c.ingest_host, "bulk-channel-status", None, None,
                       "channel_names", resp.status,
                       Reply(None, ChannelStatusOf(resp)))
    IN  IF ~Truthy(c.ingest_host)
        THEN Result(c, "RuntimeError", None, <<>>, NoTokenCheck)
        ELSE IF tk.raised THEN Result(tk.c, "CredentialError", None, <<>>, tk)
        ELSE IF resp.status # "2xx" \/ ~resp.json_ok
        THEN Result(tk.c, "RequestException", None, <<req>>, tk)
        ELSE IntResult(Result(tk.c, "ok", None, <<req>>, tk), "status", ChannelStatusOf(resp))

CloseChannel(c) == Result(c, "ok", None, <<>>, NoTokenCheck)

(***************************************************************************)
(* Initial states: the client as constructed (SnowpipeStreamingClient      *)
(* .__init__ lines 80-100), called directly (Init) or owned by an          *)
(* application about to run (InitApp; ADSBStreamingApp.__init__ line 63).  *)
(***************************************************************************)
NoOp == [op |-> "none", rows |-> <<>>, outcome |-> "ok", ret |-> None, num |-> NullInt,
         requests |-> <<>>, credCalled |-> FALSE, refreshed |-> FALSE,
         tokenAge |-> NullInt]

WfcIdle == [pc |-> "idle", expected_offset |-> 0, timeout |-> 0, poll_interval |-> 0,
            start_time |-> 0, polls |-> 0, failed |-> 0]

\* the threads of a caller that uses one client from several threads
Threads == {1, 2}

\* a thread that is not inside append_rows
ThreadIdle == [pc |-> "idle", rows |-> <<>>, new_offset |-> 0, ct |-> None,
               token |-> NullInt]

\* line 84: self.config.get('channel_name', 'TH_CHNL')
DefaultChannel == "TH_CHNL"

\* line 86: datetime.datetime.now().strftime('%Y%m%d_%H%M%S'), for a time
\* in milliseconds: the second it falls in, written in digits
Strftime(ms) == PyStr(ms \div 1000)

\* line 87: f"{base_channel}_{timestamp}"
ChannelName(base, ms) == base \o "_" \o Strftime(ms)

\* a client constructed at time ms from a configuration with this base name
Instance(base, ms) ==
    [base |-> base, constructed |-> ms, channel_name |-> ChannelName(base, ms)]

(***************************************************************************)
(* ADSBSensor (adsb_sensor.py).  A JSON document is written as a record:   *)
(* the keys it has and, under them, the aircraft list, the receiver's      *)
(* clock and its message count.  NoData is Python's None.                  *)
(***************************************************************************)
NoData == [kind |-> "None", keys |-> {}, aircraft |-> <<>>, now |-> NullInt,
           messages |-> NullInt]

Document(keys, aircraft, t, messages) ==
    [kind |-> "dict", keys |-> keys, aircraft |-> aircraft, now |-> t,
     messages |-> messages]

\* the JSON object {}
EmptyDocument == Document({}, <<>>, NullInt, NullInt)

\* {'aircraft': [...], 'now': t, 'messages': m}
Snapshot(aircraft, t, messages) == Document({"aircraft", "now", "messages"}, aircraft, t, messages)

\* a list of n aircraft
Planes(n) == [i \in 1..n |-> i]

\* Python truthiness of what `self._last_data and ...` tests (line 134):
\* None and the empty dict are false
TruthyData(d) == d.kind = "dict" /\ d.keys # {}

NoFetch == [response |-> "none", outcome |-> "none", ret |-> NoData, used_cache |-> FALSE,
            data_before |-> NoData, time_before |-> 0, at |-> 0]

\* __init__, lines 57-60
InitSensor ==
    /\ _last_data = NoData
    /\ _last_fetch_time = 0
    /\ fetched = NoFetch

InitClient ==
    /\ control_host = None
    /\ ingest_host = None
    /\ continuation_token = None
    /\ offset_token = 0
    /\ scoped_token = NullInt
    /\ token_expiry = NullInt
    /\ stats = [total_rows_sent |-> 0, total_batches |-> 0, total_bytes_sent |-> 0,
                errors |-> 0, start_time |-> 0]
    /\ now = 0
    /\ lastOp = NoOp
    /\ wfc = WfcIdle
    /\ threads = [th \in Threads |-> ThreadIdle]
    /\ instances = <<Instance(DefaultChannel, 0)>>
    /\ running = FALSE
    /\ readings = <<>>
    /\ retcode = NullInt
    /\ app_log = [sensor_read |-> FALSE, append_sent |-> FALSE, shutdowns |-> 0,
                  signalled |-> FALSE]
    /\ InitSensor

\* adsb_main.py constructs its sensor with simulate=False (line 78)
Init == InitClient /\ app_pc = "idle" /\ simulate = FALSE

InitApp == InitClient /\ app_pc = "start" /\ simulate = FALSE

(***************************************************************************)
(* One client call as a step: the client's fields become those of the      *)
(* result, and lastOp records the call until its caller goes on.           *)
(***************************************************************************)
Call(op, rows, r) ==
    /\ lastOp.op = "none"
    /\ control_host' = r.c.control_host
    /\ ingest_host' = r.c.ingest_host
    /\ continuation_token' = r.c.continuation_token
    /\ offset_token' = r.c.offset_token
    /\ scoped_token' = r.c.scoped_token
    /\ token_expiry' = r.c.token_expiry
    /\ stats' = r.c.stats
    /\ lastOp' = [op |-> op, rows |-> rows,
                  outcome |-> r.outcome, ret |-> r.ret, num |-> r.num,
                  requests |-> r.requests,
                  credCalled |-> r.credCalled, refreshed |-> r.refreshed,
                  tokenAge |-> r.tokenAge]

\* the caller takes the outcome of the call and goes on; the locals of a
\* wait_for_commit that has returned are gone
Return ==
    /\ lastOp.op # "none"
    /\ lastOp' = NoOp
    /\ wfc' = IF wfc.pc = "idle" THEN WfcIdle ELSE wfc
    /\ UNCHANGED <<clientVars, now, appVars, threads, instances, sensorVars>>

\* the model answers an append only while its counters are within the bounds
WithinBounds(c, rows, resp) ==
    \/ rows = <<>>
    \/ ~Truthy(c.ingest_host) \/ ~Truthy(c.continuation_token)
    \/ IF resp.status = "2xx" /\ resp.json_ok
       THEN c.stats.total_batches < MaxBatches
       ELSE c.stats.errors < MaxErrors

\* the client is called directly and its caller is between two calls
CallerReady ==
    /\ app_pc = "idle"
    /\ wfc.pc = "idle"
    /\ \A th \in Threads : threads[th].pc = "idle"

\* the answers that can matter to the next call: the credential subsystem is
\* asked only when the token check refreshes, the hostname endpoint only when
\* no ingest host is known, the open endpoint only when one is known or
\* found, the append endpoint only by an append that is sent
CredInputs == IF NeedsRefresh(Self, now) THEN CredOutcomes ELSE {"issue"}
DiscoverInputs ==
    IF Truthy(ingest_host) THEN {DiscoverResponse("2xx", FALSE, FALSE, None, None, <<>>)}
    ELSE DiscoverResponses
OpenInputs(dresp) ==
    IF ~Truthy(ingest_host) /\ (dresp.status # "2xx" \/ ~Truthy(DiscoveredHost(dresp)))
    THEN {OpenResponse("2xx", FALSE, None, "absent", NullInt)}
    ELSE OpenResponses
AppendInputs(rows) ==
    IF rows = <<>> \/ ~Truthy(ingest_host) \/ ~Truthy(continuation_token)
    THEN {AppendResponse("2xx", TRUE, None)}
    ELSE AppendResponses

(***************************************************************************)
(* The caller's actions: one per public method.                            *)
(***************************************************************************)
CallDiscoverIngestHost ==
    /\ CallerReady
    /\ \E cred \in CredInputs, resp \in DiscoverResponses :
           Call("discover_ingest_host", <<>>, DiscoverIngestHost(Self, now, cred, resp))
    /\ UNCHANGED <<now, wfc, appVars, threads, instances, sensorVars>>

CallOpenChannel ==
    /\ CallerReady
    /\ \E cred \in CredInputs, dresp \in DiscoverInputs : \E resp \in OpenInputs(dresp) :
           Call("open_channel", <<>>, OpenChannel(Self, now, cred, dresp, resp))
    /\ UNCHANGED <<now, wfc, appVars, threads, instances, sensorVars>>

CallAppendRows ==
    /\ CallerReady
    /\ \E rows \in Batches, cred \in CredInputs : \E resp \in AppendInputs(rows) :
           /\ WithinBounds(Self, rows, resp)
           /\ Call("append_rows", rows, AppendRows(Self, now, rows, cred, resp))
    /\ UNCHANGED <<now, wfc, appVars, threads, instances, sensorVars>>

CallInsertRows ==
    /\ CallerReady
    /\ \E rows \in Batches, cred \in CredInputs : \E resp \in AppendInputs(rows) :
           /\ WithinBounds(Self, rows, resp)
           /\ Call("insert_rows", rows, InsertRows(Self, now, rows, cred, resp))
    /\ UNCHANGED <<now, wfc, appVars, threads, instances, sensorVars>>

CallGetChannelStatus ==
    /\ CallerReady
    /\ \E cred \in CredInputs, resp \in StatusResponses :
           Call("get_channel_status", <<>>, GetChannelStatus(Self, now, cred, resp))
    /\ UNCHANGED <<now, wfc, appVars, threads, instances, sensorVars>>

CallCloseChannel ==
    /\ CallerReady
    /\ Call("close_channel", <<>>, CloseChannel(Self))
    /\ UNCHANGED <<now, wfc, appVars, threads, instances, sensorVars>>

\* time passes between two calls
Tick ==
    /\ lastOp.op = "none"
    /\ wfc.pc = "idle"
    /\ \E t \in Times : t > now /\ t <= MaxTime /\ now' = t
    /\ UNCHANGED <<clientVars, lastOp, wfc, appVars, threads, instances, sensorVars>>

(***************************************************************************)
(* wait_for_commit: lines 422-454.  One action starts the call, one runs   *)
(* an iteration of the loop (the loop test, the poll, the sleep) or the    *)
(* return after the loop.                                                  *)
(***************************************************************************)
\* arguments the caller may pass: expected_offset, and (timeout, poll_interval)
ExpectedOffsets == {2}
TimeoutsAndIntervals == {<<1500, 500>>, <<500, 1000>>}

\* line 437: the loop test
WithinTimeout(w, t) == t - w.start_time < w.timeout

\* line 440: status.get('committed_offset_token', 0)
CommittedOffset(status) == IF status = AbsentInt THEN 0 ELSE status

\* mutant: the expected offset itself does not count as committed
CommitReached_Strict(committed, expected) == committed # NullInt /\ committed > expected

\* line 442; comparing None with an int raises TypeError (caught at line 449)
CommitReached(committed, expected) == committed # NullInt /\ committed >= expected

\* lines 439-442: this poll shows the expected offset committed
PollConfirms(r, w) ==
    r.outcome = "ok" /\ CommitReached(CommittedOffset(r.num), w.expected_offset)

\* mutant: no iteration is taken as failed
PollFailed_Never(r) == 0

\* lines 449-452: 1 when the iteration ended in the except clause (the poll
\* raised, or the status was malformed and the comparison raised), else 0
PollFailed(r) == IF r.outcome # "ok" \/ CommittedOffset(r.num) = NullInt THEN 1 ELSE 0

\* the value wait_for_commit returns, as a call result
Returned(r, value) == [r EXCEPT !.outcome = "ok", !.ret = value, !.num = NullInt]

\* lines 434-436; the call is started only if its whole loop fits the clock
WaitForCommitStart ==
    /\ CallerReady
    /\ lastOp.op = "none"
    /\ \E e \in ExpectedOffsets, ti \in TimeoutsAndIntervals :
           /\ now + ti[1] + ti[2] <= MaxWaitTime
           /\ wfc' = [pc |-> "loop", expected_offset |-> e, timeout |-> ti[1],
                      poll_interval |-> ti[2], start_time |-> now, polls |-> 0,
                      failed |-> 0]
    /\ UNCHANGED <<clientVars, now, lastOp, appVars, threads, instances, sensorVars>>

\* lines 437-454
WaitForCommitStep ==
    /\ wfc.pc = "loop"
    /\ IF WithinTimeout(wfc, now)
       THEN \E cred \in CredInputs, resp \in StatusResponses :
                LET r == GetChannelStatus(Self, now, cred, resp)
                IN  IF PollConfirms(r, wfc)
                    THEN /\ Call("wait_for_commit", <<>>, Returned(r, "True"))
                         /\ wfc' = [WfcIdle EXCEPT !.polls = wfc.polls + 1,
                                                   !.failed = wfc.failed]
                         /\ now' = now
                    ELSE /\ Call("get_channel_status", <<>>, r)
                         /\ wfc' = [wfc EXCEPT !.polls = @ + 1,
                                               !.failed = @ + PollFailed(r)]
                         /\ now' = now + wfc.poll_interval
       ELSE /\ Call("wait_for_commit", <<>>, Returned(CloseChannel(Self), "False"))
            /\ wfc' = [WfcIdle EXCEPT !.polls = wfc.polls, !.failed = wfc.failed]
            /\ now' = now
    /\ UNCHANGED <<appVars, threads, instances, sensorVars>>

(***************************************************************************)
(* ADSBStreamingApp (src/adsb_main.py): run() and the signal handler.      *)
(* app_pc is the position in run(); each action is the code between two    *)
(* points at which a signal may be handled.                                *)
(***************************************************************************)
AppGoes(pc) == app_pc' = pc /\ UNCHANGED <<running, readings, retcode, app_log>>

\* mutant: a failure during initialize() is logged and ignored
InitializeOk_Always(r) == TRUE

\* initialize(), lines 107-121: True unless a call raised
InitializeOk(r) == r.outcome = "ok"

\* initialize(), lines 108-110 and 119-121, with run()'s lines 125-127
AppInitDiscover ==
    /\ app_pc = "start"
    /\ \E cred \in CredInputs, resp \in DiscoverResponses :
           LET r == DiscoverIngestHost(Self, now, cred, resp)
           IN  /\ Call("discover_ingest_host", <<>>, r)
               /\ IF InitializeOk(r)
                  THEN AppGoes("init_open")
                  ELSE /\ app_pc' = "returned"
                       /\ retcode' = 1
                       /\ UNCHANGED <<running, readings, app_log>>
    /\ UNCHANGED <<now, wfc, threads, instances, sensorVars>>

\* initialize(), lines 112-121, with run()'s lines 125-127
AppInitOpen ==
    /\ app_pc = "init_open"
    /\ \E cred \in CredInputs, dresp \in DiscoverInputs : \E resp \in OpenInputs(dresp) :
           LET r == OpenChannel(Self, now, cred, dresp, resp)
           IN  /\ Call("open_channel", <<>>, r)
               /\ IF InitializeOk(r)
                  THEN AppGoes("init_done")
                  ELSE /\ app_pc' = "returned"
                       /\ retcode' = 1
                       /\ UNCHANGED <<running, readings, app_log>>
    /\ UNCHANGED <<now, wfc, threads, instances, sensorVars>>

\* run(), line 129
AppStartLoop ==
    /\ app_pc = "init_done"
    /\ lastOp.op = "none"
    /\ running' = TRUE
    /\ app_pc' = "loop"
    /\ UNCHANGED <<clientVars, now, lastOp, wfc, readings, retcode, app_log, threads, instances, sensorVars>>

\* run(), line 139: the loop test
AppLoopTest ==
    /\ app_pc = "loop"
    /\ lastOp.op = "none"
    /\ AppGoes(IF running THEN "read" ELSE "finally")
    /\ UNCHANGED <<clientVars, now, lastOp, wfc, threads, instances, sensorVars>>

\* run(), lines 140-175: the sensor is read; formatting the sample for the
\* log (lines 168-172) raises TypeError when a field it formats is None;
\* once the counters are at their bounds no aircraft is in sight any more
AppReadBatch ==
    /\ app_pc = "read"
    /\ lastOp.op = "none"
    /\ \E batch \in Batches, log_raises \in BOOLEAN :
           /\ log_raises => batch # <<>>
           /\ \E resp \in AppendInputs(batch) : WithinBounds(Self, batch, resp)
           /\ readings' = batch
           /\ app_pc' = IF log_raises THEN "except" ELSE "insert"
    /\ app_log' = [app_log EXCEPT !.sensor_read = TRUE]
    /\ UNCHANGED <<clientVars, now, lastOp, wfc, running, retcode, threads, instances, sensorVars>>

\* mutant: a failed insert is not caught and ends the loop
AppInsert_FailureEndsLoop ==
    /\ app_pc = "insert"
    /\ IF readings # <<>>
       THEN \E cred \in CredInputs : \E resp \in AppendInputs(readings) :
                LET r == InsertRows(Self, now, readings, cred, resp)
                IN  /\ WithinBounds(Self, readings, resp)
                    /\ Call("insert_rows", readings, r)
                    /\ app_log' = [app_log EXCEPT
                                     !.append_sent = @ \/ r.requests # <<>>]
                    /\ app_pc' = IF r.outcome = "ok" THEN "sleep" ELSE "except"
       ELSE lastOp.op = "none" /\ UNCHANGED <<clientVars, lastOp, app_log>>
                               /\ app_pc' = "sleep"
    /\ UNCHANGED <<now, wfc, running, readings, retcode, threads, instances, sensorVars>>

\* run(), lines 177-183: the batch is inserted; a failure is logged
AppInsert ==
    /\ app_pc = "insert"
    /\ IF readings # <<>>
       THEN \E cred \in CredInputs : \E resp \in AppendInputs(readings) :
                LET r == InsertRows(Self, now, readings, cred, resp)
                IN  /\ WithinBounds(Self, readings, resp)
                    /\ Call("insert_rows", readings, r)
                    /\ app_log' = [app_log EXCEPT
                                     !.append_sent = @ \/ r.requests # <<>>]
       ELSE lastOp.op = "none" /\ UNCHANGED <<clientVars, lastOp, app_log>>
    /\ app_pc' = "sleep"
    /\ UNCHANGED <<now, wfc, running, readings, retcode, threads, instances, sensorVars>>

\* run(), lines 185-194: the wait until the next batch
AppSleep ==
    /\ app_pc = "sleep"
    /\ lastOp.op = "none"
    /\ AppGoes("loop")
    /\ UNCHANGED <<clientVars, now, lastOp, wfc, threads, instances, sensorVars>>

\* mutant: shutdown() runs only when the loop ended without an exception
AppFinally_NoShutdownOnError ==
    /\ app_pc \in {"finally", "except"}
    /\ Call("close_channel", <<>>, CloseChannel(Self))
    /\ app_log' = [app_log EXCEPT !.shutdowns = IF app_pc = "except" THEN @ ELSE @ + 1]
    /\ retcode' = IF app_pc = "except" THEN 1 ELSE 0
    /\ app_pc' = "returned"
    /\ UNCHANGED <<now, wfc, running, readings, threads, instances, sensorVars>>

\* run(), lines 196-203, with shutdown(), lines 205-225
AppFinally ==
    /\ app_pc \in {"finally", "except"}
    /\ Call("close_channel", <<>>, CloseChannel(Self))
    /\ app_log' = [app_log EXCEPT !.shutdowns = @ + 1]
    /\ retcode' = IF app_pc = "except" THEN 1 ELSE 0
    /\ app_pc' = "returned"
    /\ UNCHANGED <<now, wfc, running, readings, threads, instances, sensorVars>>

\* _signal_handler, lines 98-101 (installed by __init__, lines 85-86)
SignalHandler ==
    /\ app_pc \notin {"idle", "returned"}
    /\ running' = FALSE
    /\ app_log' = [app_log EXCEPT !.signalled = TRUE]
    /\ UNCHANGED <<clientVars, now, lastOp, wfc, app_pc, readings, retcode, threads, instances, sensorVars>>

(***************************************************************************)
(* Specifications.                                                         *)
(*   Spec     : any sequence of direct calls of the client's methods,      *)
(*              with time passing between them.                            *)
(*   WaitSpec : wait_for_commit on a client set up by direct calls.        *)
(*   AppSpec  : the client driven by ADSBStreamingApp.run.                 *)
(***************************************************************************)
Next ==
    \/ CallDiscoverIngestHost
    \/ CallOpenChannel
    \/ CallAppendRows
    \/ CallInsertRows
    \/ CallGetChannelStatus
    \/ CallCloseChannel
    \/ Return
    \/ Tick

Spec == Init /\ [][Next]_vars

NextWait ==
    \/ CallDiscoverIngestHost
    \/ CallOpenChannel
    \/ WaitForCommitStart
    \/ WaitForCommitStep
    \/ Return

WaitSpec == Init /\ [][NextWait]_vars

NextApp ==
    \/ AppInitDiscover
    \/ AppInitOpen
    \/ AppStartLoop
    \/ AppLoopTest
    \/ AppReadBatch
    \/ AppInsert
    \/ AppSleep
    \/ AppFinally
    \/ SignalHandler
    \/ Return
    \/ Tick

AppSpec == InitApp /\ [][NextApp]_vars

\* wait_for_commit runs on: the thread that called it is not suspended for
\* ever between two iterations of its loop
FairWaitSpec == WaitSpec /\ WF_vars(WaitForCommitStep) /\ WF_vars(Return)

\* run() runs on: the main thread goes from each statement to the next (the
\* sensor answers, requests end by an answer or a timeout, sleeps end);
\* nothing obliges a signal to arrive
AppRuns ==
    \/ AppInitDiscover
    \/ AppInitOpen
    \/ AppStartLoop
    \/ AppLoopTest
    \/ AppReadBatch
    \/ AppInsert
    \/ AppSleep
    \/ AppFinally
    \/ Return

FairAppSpec == AppSpec /\ WF_vars(AppRuns)

\* both uses of the client
InitAll == InitClient /\ app_pc \in {"idle", "start"} /\ simulate = FALSE

NextAll ==
    \/ CallDiscoverIngestHost
    \/ CallOpenChannel
    \/ CallAppendRows
    \/ CallInsertRows
    \/ CallGetChannelStatus
    \/ CallCloseChannel
    \/ AppInitDiscover
    \/ AppInitOpen
    \/ AppStartLoop
    \/ AppLoopTest
    \/ AppReadBatch
    \/ AppInsert
    \/ AppSleep
    \/ AppFinally
    \/ SignalHandler
    \/ Return
    \/ Tick

AllSpec == InitAll /\ [][NextAll]_vars

(***************************************************************************)
(* Vocabulary of the properties.  A step is a call of op when lastOp goes  *)
(* from "none" to a record of that call; the unprimed variables are the    *)
(* client before the call, the primed ones the client after it.            *)
(***************************************************************************)
IsCall(op) == lastOp.op = "none" /\ lastOp'.op = op

\* the last request a call sent (calls that sent one)
LastRequest(o) == o.requests[Len(o.requests)]

\* a call of append_rows that sent its request and got this status
AppendAnswered(statuses) ==
    /\ IsCall("append_rows")
    /\ lastOp'.requests # <<>>
    /\ LastRequest(lastOp').status \in statuses

\* what a request puts on the wire for the server to sequence the batch
Wire(req) == <<req.offsetToken, req.continuationToken, req.body>>

\* the wire content of the request append_rows would send for rows, were it
\* called in the current state
NextWire(rows) == Wire(AppendRequest(Self, rows, AppendResponse("2xx", TRUE, None)))

\* the same, in the state after the step
NextWireAfter(rows) == Wire(AppendRequest(Self', rows, AppendResponse("2xx", TRUE, None)))

(***************************************************************************)
(* C1: an append_rows call that raises (channel not opened, token          *)
(* acquisition failure, HTTP 4xx/5xx, transport error, unreadable body)    *)
(* leaves offset_token as it was; the request it sent, if any, carried the *)
(* offsetToken that the next append_rows call will send.                   *)
(***************************************************************************)
C1_FailedAppendKeepsOffset ==
    [][(IsCall("append_rows") /\ lastOp'.outcome # "ok")
        => /\ offset_token' = offset_token
           /\ lastOp'.requests # <<>>
                => LastRequest(lastOp').offsetToken = NextWireAfter(lastOp'.rows)[1]]_vars

\* an append that was sent as the third offset of an open channel failed
C1_Witness ==
    /\ lastOp.op = "append_rows"
    /\ lastOp.outcome = "RequestException"
    /\ stats.total_batches = 2
    /\ LastRequest(lastOp).offsetToken = "3"

(***************************************************************************)
(* C2: every append request carries offsetToken = str(offset_token + 1),   *)
(* whatever the number of rows, and a successful append leaves             *)
(* offset_token exactly one higher, so the next request carries the next   *)
(* integer.                                                                *)
(***************************************************************************)
C2_OffsetIsOnePastLast ==
    [][(IsCall("append_rows") /\ lastOp'.requests # <<>>)
        => /\ LastRequest(lastOp').offsetToken = PyStr(offset_token + 1)
           /\ lastOp'.outcome = "ok"
                => /\ offset_token' = offset_token + 1
                   /\ NextWireAfter(lastOp'.rows)[1] = PyStr(offset_token + 2)]_vars

\* a two-row batch was appended as the second batch in a row
C2_Witness ==
    /\ lastOp.op = "append_rows"
    /\ lastOp.outcome = "ok"
    /\ Len(lastOp.rows) = 2
    /\ stats.total_batches = 2
    /\ offset_token = 2

(***************************************************************************)
(* C3: a successful append whose response carries no                       *)
(* next_continuation_token keeps the previous continuation_token and       *)
(* advances offset_token.                                                  *)
(***************************************************************************)
C3_MissingTokenKeepsPrevious ==
    [][(AppendAnswered({"2xx"}) /\ lastOp'.outcome = "ok"
            /\ LastRequest(lastOp').reply.next_continuation_token = None)
        => /\ continuation_token' = continuation_token
           /\ offset_token' = offset_token + 1]_vars

(***************************************************************************)
(* C4: an append_rows call that fails with an HTTP 4xx/5xx response or a   *)
(* transport error adds exactly 1 to stats.errors and leaves               *)
(* continuation_token, offset_token and the other counters unchanged.      *)
(***************************************************************************)
C4_FailureCountsOneError ==
    [][AppendAnswered(FailStatuses)
        => /\ lastOp'.outcome = "RequestException"
           /\ stats'.errors = stats.errors + 1
           /\ stats' = [stats EXCEPT !.errors = stats'.errors]
           /\ continuation_token' = continuation_token
           /\ offset_token' = offset_token]_vars

\* a 5xx answer to an append on a channel that had already taken a batch
C4_Witness ==
    /\ lastOp.op = "append_rows"
    /\ lastOp.requests # <<>>
    /\ LastRequest(lastOp).status = "5xx"
    /\ stats.errors = 1
    /\ stats.total_batches = 1

(***************************************************************************)
(* C5: after an append_rows call that failed with a transient error (5xx   *)
(* or transport error), the same call with the same rows sends the same    *)
(* offsetToken, the same continuationToken and the same NDJSON body.       *)
(***************************************************************************)
C5_RetrySendsTheSame ==
    [][AppendAnswered({"5xx", "transport"})
        => NextWireAfter(lastOp'.rows) = Wire(LastRequest(lastOp'))]_vars

\* a two-row batch met a transport error
C5_Witness ==
    /\ lastOp.op = "append_rows"
    /\ lastOp.requests # <<>>
    /\ LastRequest(lastOp).status = "transport"
    /\ Len(lastOp.rows) = 2
    /\ LastRequest(lastOp).body = Ndjson(lastOp.rows)

(***************************************************************************)
(* C6: append_rows([]) and insert_rows([]), in any state of the client,    *)
(* send nothing, do not check or refresh the token, return {} and 0, and   *)
(* leave every field of the client unchanged.                              *)
(***************************************************************************)
C6_EmptyBatchIsNoOp ==
    [][((IsCall("append_rows") \/ IsCall("insert_rows")) /\ lastOp'.rows = <<>>)
        => /\ lastOp'.requests = <<>>
           /\ ~lastOp'.credCalled
           /\ lastOp'.outcome = "ok"
           /\ IF lastOp'.op = "append_rows" THEN lastOp'.ret = "{}"
                                               ELSE lastOp'.ret = "int" /\ lastOp'.num = 0
           /\ UNCHANGED clientVars]_vars

\* an empty append on an open channel whose cached token has expired
C6_Witness ==
    /\ lastOp.op = "append_rows"
    /\ lastOp.rows = <<>>
    /\ Truthy(ingest_host) /\ Truthy(continuation_token)
    /\ NeedsRefresh(Self, now)
    /\ scoped_token # NullInt

(***************************************************************************)
(* C7: a successful open_channel leaves offset_token equal to the          *)
(* response's channel_status.last_committed_offset_token, or 0 when that   *)
(* is null or absent, and continuation_token equal to the response's       *)
(* next_continuation_token; after opening a channel with no history the    *)
(* next append carries offsetToken 1.                                      *)
(***************************************************************************)
C7_OpenInitialisesFromServer ==
    (lastOp.op = "open_channel" /\ lastOp.outcome = "ok")
        => LET reply == LastRequest(lastOp).reply
           IN  /\ offset_token = IF reply.offset = NullInt THEN 0 ELSE reply.offset
               /\ continuation_token = reply.next_continuation_token
               /\ reply.offset = NullInt => NextWire(<<>>)[1] = "1"

\* a client that had appended was reopened on a channel without history
C7_Witness ==
    /\ lastOp.op = "open_channel"
    /\ lastOp.outcome = "ok"
    /\ LastRequest(lastOp).reply.offset = NullInt
    /\ continuation_token = "ct2"
    /\ stats.total_batches > 0

(***************************************************************************)
(* C8 as stated: with a cached token obtained at t0, a token check at      *)
(* t0 + 2500 s returns the cached token without asking the credential      *)
(* subsystem, and a token check at t0 + 2900 s asks it for a new token.    *)
(***************************************************************************)
C8_RefreshWithinMargin ==
    /\ lastOp.tokenAge = 2500 => ~lastOp.credCalled
    /\ lastOp.tokenAge = 2900 => lastOp.credCalled

(***************************************************************************)
(* C8 amended: with a cached token obtained at t0, a token check at        *)
(* t0 + 2500 s and one at t0 + 2900 s return the cached token without      *)
(* asking the credential subsystem; it is asked exactly when the check is  *)
(* made at or after the expiry mark t0 + 3000 s, and its answer then       *)
(* replaces the cached token and moves the mark to 3000 s after the check. *)
(***************************************************************************)
C8_RefreshAtExpiryMark ==
    lastOp.tokenAge >= 0
        => /\ lastOp.tokenAge \in {2500, 2900} => ~lastOp.credCalled
           /\ lastOp.credCalled <=> lastOp.tokenAge >= TokenReuseWindow
           /\ IF lastOp.refreshed
              THEN scoped_token = now /\ token_expiry = now + TokenReuseWindow
              ELSE now - scoped_token = lastOp.tokenAge
                   /\ token_expiry = scoped_token + TokenReuseWindow

\* an append checked the token 2900 s after it was obtained and reused it
C8_Witness ==
    /\ lastOp.op = "append_rows"
    /\ lastOp.tokenAge = 2900
    /\ ~lastOp.credCalled
    /\ lastOp.requests # <<>>

(***************************************************************************)
(* C9: wait_for_commit returns True in the very iteration whose status     *)
(* poll reports committed_offset_token >= expected_offset, and only then;  *)
(* it returns False, without polling again, only when the timeout has      *)
(* elapsed; a poll that fails or falls short keeps it in the loop; it      *)
(* never raises; and once started it returns.                              *)
(***************************************************************************)
\* an iteration of the loop of wait_for_commit
WaitIteration == wfc.pc = "loop" /\ lastOp.op = "none" /\ lastOp'.op # "none"

\* the iteration polled and the answer reports an offset of at least e
PollReports(o, e) ==
    /\ o.requests # <<>>
    /\ LastRequest(o).status = "2xx"
    /\ LastRequest(o).reply.offset >= e

WaitReturns(o, value) == o.op = "wait_for_commit" /\ o.outcome = "ok" /\ o.ret = value

C9_WaitForCommit ==
    /\ [][WaitIteration
            => /\ PollReports(lastOp', wfc.expected_offset)
                    <=> WaitReturns(lastOp', "True")
               /\ WaitReturns(lastOp', "False")
                    => (now - wfc.start_time >= wfc.timeout /\ lastOp'.requests = <<>>)
               /\ IF WaitReturns(lastOp', "True") \/ WaitReturns(lastOp', "False")
                  THEN wfc'.pc = "idle" /\ now' = now
                  ELSE /\ lastOp'.op = "get_channel_status"
                       /\ wfc'.pc = "loop"
                       /\ now' = now + wfc.poll_interval]_vars
    /\ (wfc.pc = "loop") ~> (wfc.pc = "idle")

\* the third poll was the first to report the expected offset
C9_Witness ==
    /\ lastOp.op = "wait_for_commit"
    /\ lastOp.ret = "True"
    /\ wfc.polls = 3
    /\ LastRequest(lastOp).reply.offset = 2

(***************************************************************************)
(* C10: an open_channel call whose handshake is answered by a 4xx or 5xx   *)
(* response raises and leaves continuation_token and offset_token          *)
(* unchanged; when the call is the application's, run() returns 1 at once, *)
(* the sensor unread and no append sent, and does nothing afterwards.      *)
(***************************************************************************)
OpenRejected ==
    /\ IsCall("open_channel")
    /\ lastOp'.requests # <<>>
    /\ LastRequest(lastOp').method = "PUT"
    /\ LastRequest(lastOp').status \in {"4xx", "5xx"}

C10_OpenFailureIsFatal ==
    /\ [][OpenRejected
            => /\ lastOp'.outcome = "RequestException"
               /\ continuation_token' = continuation_token
               /\ offset_token' = offset_token
               /\ app_pc # "idle"
                    => /\ app_pc' = "returned"
                       /\ retcode' = 1
                       /\ ~app_log'.sensor_read
                       /\ ~app_log'.append_sent
                       /\ app_log'.shutdowns = 0]_vars
    /\ [][app_pc = "returned"
            => /\ UNCHANGED <<clientVars, appVars>>
               /\ lastOp'.op \in {lastOp.op, "none"}]_vars

\* run() has returned 1 after a 5xx answer to the open handshake
C10_Witness ==
    /\ app_pc = "returned"
    /\ retcode = 1
    /\ lastOp.op = "open_channel"
    /\ LastRequest(lastOp).method = "PUT"
    /\ LastRequest(lastOp).status = "5xx"
    /\ Truthy(ingest_host)

(***************************************************************************)
(* C11: close_channel sends no request and leaves the client unusable: a   *)
(* non-empty append_rows call made after it is rejected and sends nothing. *)
(***************************************************************************)
C11_CloseMarksUnusable ==
    [][IsCall("close_channel")
        => /\ lastOp'.requests = <<>>
           /\ \A rows \in Batches \ {<<>>}, resp \in AppendResponses :
                  LET a == AppendRows(Self', now', rows, "issue", resp)
                  IN  a.outcome = "RuntimeError" /\ a.requests = <<>>]_vars

(***************************************************************************)
(* C12: the failure of an append_rows call is classified: a network error, *)
(* a timeout or a 5xx response raises a 'transient' failure, a 4xx         *)
(* response a 'rejected' one.                                              *)
(***************************************************************************)
\* the exception a failed call raises to its caller: requests.post raises
\* ConnectionError or Timeout (line 332), raise_for_status raises HTTPError
\* for 4xx and 5xx alike (line 345), response.json() raises JSONDecodeError
\* (line 347); append_rows re-raises it as it is (line 370)
Raised(o) ==
    IF o.outcome # "RequestException" THEN o.outcome
    ELSE CASE LastRequest(o).status \in {"4xx", "5xx"} -> "HTTPError"
           [] LastRequest(o).status = "transport" -> "ConnectionError"
           [] OTHER -> "JSONDecodeError"

C12_FailureIsClassified ==
    [][AppendAnswered(FailStatuses)
        => Raised(lastOp') = IF LastRequest(lastOp').status = "4xx"
                             THEN "rejected" ELSE "transient"]_vars

(***************************************************************************)
(* C13: discover_ingest_host, answered 2xx, returns the JSON field         *)
(* 'hostname', or 'ingest_host' when that is missing or empty, when the    *)
(* content type is JSON; returns the body text without its leading and     *)
(* trailing whitespace when the content type is absent or not JSON; and    *)
(* raises an error when the hostname so found is empty.  The hostname      *)
(* returned is the one kept in ingest_host.                                *)
(***************************************************************************)
\* host is the body text (a sequence of pieces) without the whitespace at
\* its two ends
IsStripped(host, text) ==
    \E i \in 1..(Len(text) + 1), j \in 0..Len(text) :
        /\ \A k \in 1..Len(text) : (k < i \/ k > j) => text[k] \in Whitespace
        /\ i <= j => (text[i] \notin Whitespace /\ text[j] \notin Whitespace)
        /\ host = Concat(SubSeq(text, i, j))

\* the hostname the claim expects for a response
ExpectedHost(resp, host) ==
    IF resp.ctype_json
    THEN host = IF resp.hostname \notin {None, ""} THEN resp.hostname ELSE resp.ingest_host
    ELSE IsStripped(host, resp.text)

C14_TokenFromLastSuccess ==
    [][(lastOp.op = "none" /\ lastOp'.op # "none")
        => /\ (lastOp'.op \in {"open_channel", "append_rows", "insert_rows"}
                    /\ lastOp'.outcome = "ok" /\ lastOp'.requests # <<>>
                    /\ LastRequest(lastOp').reply.next_continuation_token # None)
                => continuation_token' = LastRequest(lastOp').reply.next_continuation_token
           /\ (lastOp'.op \in {"append_rows", "insert_rows"} /\ lastOp'.requests # <<>>)
                => LastRequest(lastOp').continuationToken = continuation_token
           /\ lastOp'.outcome # "ok" => continuation_token' = continuation_token]_vars

(***************************************************************************)
(* A caller that uses every public method of the client, wait_for_commit   *)
(* included; the clock advances while wait_for_commit sleeps.              *)
(***************************************************************************)
NextClient ==
    \/ CallDiscoverIngestHost
    \/ CallOpenChannel
    \/ CallAppendRows
    \/ CallInsertRows
    \/ CallGetChannelStatus
    \/ CallCloseChannel
    \/ WaitForCommitStart
    \/ WaitForCommitStep
    \/ Return

ClientSpec == Init /\ [][NextClient]_vars

(***************************************************************************)
(* C15: no counter ever decreases; a successful non-empty append adds 1 to *)
(* total_batches and the number of its rows to total_rows_sent; an append  *)
(* whose request was sent and failed adds 1 to errors; and no other step   *)
(* (discover_ingest_host, open_channel, get_channel_status,                *)
(* wait_for_commit, close_channel, an append that is empty or rejected     *)
(* before its request) changes any counter.  By induction each counter     *)
(* equals the number of the events it counts.                              *)
(***************************************************************************)
\* an append (direct or through insert_rows) that sent its request
AppendSent(o) == o.op \in {"append_rows", "insert_rows"} /\ o.requests # <<>>

C15_CountersCountAppends ==
    [][/\ stats'.total_rows_sent >= stats.total_rows_sent
       /\ stats'.total_batches >= stats.total_batches
       /\ stats'.total_bytes_sent >= stats.total_bytes_sent
       /\ stats'.errors >= stats.errors
       /\ stats'.start_time = stats.start_time
       /\ IF lastOp.op = "none" /\ AppendSent(lastOp') /\ lastOp'.outcome = "ok"
          THEN /\ stats'.total_batches = stats.total_batches + 1
               /\ stats'.total_rows_sent = stats.total_rows_sent + Len(lastOp'.rows)
               /\ stats'.errors = stats.errors
          ELSE IF lastOp.op = "none" /\ AppendSent(lastOp')
          THEN /\ stats'.errors = stats.errors + 1
               /\ stats' = [stats EXCEPT !.errors = stats'.errors]
          ELSE stats' = stats]_vars

\* two batches of three rows in all went through, one append failed, and
\* wait_for_commit has returned since
C15_Witness ==
    /\ lastOp.op = "wait_for_commit"
    /\ stats.total_batches = 2
    /\ stats.total_rows_sent = 3
    /\ stats.errors = 1

(***************************************************************************)
(* C16: a non-empty append on a client whose ingest_host or                *)
(* continuation_token is unset raises the 'channel not opened' error       *)
(* (RuntimeError), sends no request, makes no token check, and leaves      *)
(* every field of the client, the error counter included, unchanged.       *)
(***************************************************************************)
C16_NotOpenedIsRejected ==
    [][((IsCall("append_rows") \/ IsCall("insert_rows")) /\ lastOp'.rows # <<>>
            /\ (ingest_host \in {None, ""} \/ continuation_token \in {None, ""}))
        => /\ lastOp'.outcome = "RuntimeError"
           /\ lastOp'.requests = <<>>
           /\ ~lastOp'.credCalled /\ ~lastOp'.refreshed /\ lastOp'.tokenAge = NullInt
           /\ UNCHANGED clientVars]_vars

\* the host is known, the channel is not open and the cached token has
\* expired: the append is rejected and the token is left as it is
C16_Witness ==
    /\ lastOp.op = "append_rows"
    /\ lastOp.outcome = "RuntimeError"
    /\ Truthy(ingest_host)
    /\ continuation_token = None
    /\ scoped_token # NullInt
    /\ now >= token_expiry

(***************************************************************************)
(* C17: an open_channel call whose 2xx response carries no                 *)
(* next_continuation_token returns without raising and leaves              *)
(* continuation_token unset; every non-empty append_rows call made in that *)
(* state raises the 'channel not opened' error and sends no request.       *)
(***************************************************************************)
\* every non-empty append on client c is rejected before anything is sent
AppendsRejected(c) ==
    \A rows \in Batches \ {<<>>}, cred \in CredOutcomes, resp \in AppendResponses :
        LET a == AppendRows(c, now, rows, cred, resp)
        IN  a.outcome = "RuntimeError" /\ a.requests = <<>> /\ a.c = c

C18_TokenFailurePropagates ==
    [][(lastOp.op = "none" /\ lastOp'.op # "none" /\ lastOp'.credCalled
            /\ ~lastOp'.refreshed)
        => /\ lastOp'.outcome = "CredentialError"
           /\ lastOp'.requests = <<>>
           /\ offset_token' = offset_token
           /\ continuation_token' = continuation_token
           /\ scoped_token' = scoped_token
           /\ token_expiry' = token_expiry
           /\ stats' = stats
           /\ EnsureValidToken(Self', now', "issue").credCalled]_vars

\* an append on an open channel could not replace its expired token
C18_Witness ==
    /\ lastOp.op = "append_rows"
    /\ lastOp.outcome = "CredentialError"
    /\ scoped_token # NullInt
    /\ now >= token_expiry
    /\ Truthy(continuation_token)

(***************************************************************************)
(* C19: inside wait_for_commit an iteration whose status poll fails (the   *)
(* request fails, the client has no ingest host, the token cannot be had,  *)
(* or the status is malformed) sleeps and goes on with the loop, its       *)
(* target and its deadline unchanged; after failed polls a poll within the *)
(* timeout that reports committed_offset_token >= expected_offset still    *)
(* makes the call return True; and the call never raises.                  *)
(***************************************************************************)
\* the poll of this iteration failed
PollFailure(o) ==
    o.op = "get_channel_status" /\ (o.outcome # "ok" \/ o.num = NullInt)

AppendGoesThrough ==
    \A rows \in Batches \ {<<>>}, resp \in AppendResponses :
        (resp.status = "2xx" /\ resp.json_ok)
            => LET a == AppendRows(Self, now, rows, "issue", resp)
               IN  /\ a.outcome = "ok"
                   /\ LastRequest(a).offsetToken = PyStr(offset_token + 1)
                   /\ a.c.offset_token = offset_token + 1

C20_StatusDoesNotGateAppends ==
    /\ [][(lastOp.op = "none" /\ lastOp'.op \in {"get_channel_status", "wait_for_commit"})
            => /\ offset_token' = offset_token
               /\ continuation_token' = continuation_token
               /\ stats' = stats]_vars
    /\ []((lastOp.op \in {"get_channel_status", "wait_for_commit"} /\ ~NotOpened(Self))
            => AppendGoesThrough)

\* after two batches the server reports offset 1 committed while the
\* client's offset_token is 2
C20_Witness ==
    /\ lastOp.op = "get_channel_status"
    /\ lastOp.outcome = "ok"
    /\ lastOp.num = 1
    /\ offset_token = 2
    /\ stats.total_batches = 2
    /\ ~NotOpened(Self)

(***************************************************************************)
(* C21: no call of a method other than wait_for_commit repeats a request:  *)
(* append_rows (and insert_rows) sends at most one append POST,            *)
(* get_channel_status at most one status POST, discover_ingest_host at     *)
(* most one GET, open_channel at most one PUT, after at most one discovery *)
(* GET and only when no ingest host was known; close_channel sends         *)
(* nothing.  This holds whether the request succeeds or fails.             *)
(***************************************************************************)
\* the number of requests of a call that went out with this method and path
Sent(o, method, path) ==
    Cardinality({i \in 1..Len(o.requests) :
                     o.requests[i].method = method /\ o.requests[i].path = path})

C21_NoInternalRetry ==
    [][(lastOp.op = "none" /\ lastOp'.op # "none")
        => LET o == lastOp'
               n == Len(o.requests)
           IN  /\ o.op \in {"append_rows", "insert_rows"}
                    => n <= 1 /\ Sent(o, "POST", "rows") = n
               /\ o.op = "get_channel_status"
                    => n <= 1 /\ Sent(o, "POST", "bulk-channel-status") = n
               /\ o.op = "discover_ingest_host"
                    => n <= 1 /\ Sent(o, "GET", "hostname") = n
               /\ o.op = "open_channel"
                    => /\ Sent(o, "PUT", "channel") <= 1
                       /\ Sent(o, "GET", "hostname") <= (IF Truthy(ingest_host) THEN 0 ELSE 1)
                       /\ Sent(o, "PUT", "channel") + Sent(o, "GET", "hostname") = n
               /\ o.op = "close_channel" => n = 0]_vars

\* an append was answered 5xx and the call ended having sent it once
C21_Witness ==
    /\ lastOp.op = "append_rows"
    /\ lastOp.outcome = "RequestException"
    /\ Len(lastOp.requests) = 1
    /\ lastOp.requests[1].status = "5xx"

(***************************************************************************)
(* C22: once ingest_host is resolved, no later call of                     *)
(* discover_ingest_host, open_channel, append_rows, insert_rows or         *)
(* get_channel_status sends a discovery request or changes ingest_host.    *)
(***************************************************************************)
C22_HostIsCached ==
    [][(lastOp.op = "none" /\ lastOp'.op # "none" /\ Truthy(ingest_host))
        => /\ ingest_host' = ingest_host
           /\ Sent(lastOp', "GET", "hostname") = 0]_vars

(***************************************************************************)
(* C23: in ADSBStreamingApp.run a failed insert_rows does not end the loop *)
(* and is not retried: the loop goes on to its sleep, the only appends     *)
(* the loop sends are those of a batch just read from the sensor, each     *)
(* sent once, and the next batch sent carries the offsetToken the failed   *)
(* batch carried.                                                          *)
(***************************************************************************)
\* run() calls insert_rows for the batch it has read
InsertCall == app_pc = "insert" /\ IsCall("insert_rows")

\* the offsetToken of the append the client would send next, after the step
NextOffsetTokenAfter(rows) ==
    AppendRequest(Self', rows, AppendResponse("2xx", TRUE, None)).offsetToken

C23_FailedInsertIsSkipped ==
    [][/\ (InsertCall /\ lastOp'.outcome # "ok")
            => /\ app_pc' = "sleep"
               /\ retcode' = retcode
               /\ running' = running
               /\ lastOp'.requests # <<>>
                    => \A rows \in Batches \ {<<>>} :
                           NextOffsetTokenAfter(rows) = LastRequest(lastOp').offsetToken
       /\ (app_pc # "idle" /\ lastOp.op = "none" /\ AppendSent(lastOp'))
            => /\ app_pc = "insert"
               /\ lastOp'.rows = readings
               /\ Len(lastOp'.requests) = 1
               /\ LastRequest(lastOp').offsetToken = PyStr(offset_token + 1)
               /\ app_pc' = "sleep"
       /\ (app_pc' = "insert" /\ app_pc # "insert") => app_pc = "read"
       /\ (app_pc # "idle" /\ ~(lastOp.op = "none" /\ lastOp'.op # "none"))
            => offset_token' = offset_token]_vars

\* the loop has sent a batch after an earlier batch failed, with the
\* offsetToken the failed one had
C23_Witness ==
    /\ app_pc = "sleep"
    /\ lastOp.op = "insert_rows"
    /\ lastOp.outcome = "ok"
    /\ stats.errors = 1
    /\ stats.total_batches = 1
    /\ LastRequest(lastOp).offsetToken = PyStr(offset_token)

(***************************************************************************)
(* C24: offset_token is a non-negative integer and no call of              *)
(* open_channel, append_rows, get_channel_status, wait_for_commit or       *)
(* close_channel ever lowers it, a second open_channel on an open client   *)
(* included.                                                               *)
(***************************************************************************)
C24_OffsetNeverDecreases ==
    [][offset_token' \in Nat /\ offset_token' >= offset_token]_vars

(***************************************************************************)
(* append_rows called from several threads of one caller.  The client has  *)
(* no lock, so a call is a sequence of steps between which the other       *)
(* threads run: the call up to the credential request (lines 289-298 and   *)
(* 124-126), the return of the credential request, the assignments of      *)
(* lines 126-128 followed by the dispatch of the append request (lines     *)
(* 301-338), and the handling of the answer (lines 345-370).  A thread is  *)
(* suspended only where the interpreter can suspend it: while a request is *)
(* in flight, and between the return of a call and the assignment of its   *)
(* value.                                                                  *)
(***************************************************************************)
\* the client's fields become those of c
ClientBecomes(c) ==
    /\ control_host' = c.control_host
    /\ ingest_host' = c.ingest_host
    /\ continuation_token' = c.continuation_token
    /\ offset_token' = c.offset_token
    /\ scoped_token' = c.scoped_token
    /\ token_expiry' = c.token_expiry
    /\ stats' = c.stats

\* lines 301-338: new_offset and the request parameters are read from the
\* client and the request is sent
Dispatch(c, rows) ==
    [ThreadIdle EXCEPT !.pc = "post", !.rows = rows, !.new_offset = NewOffset(c),
                       !.ct = c.continuation_token]

\* the request a thread has in flight
InFlight(th) ==
    Request("POST", ingest_host, "rows", threads[th].ct, PyStr(threads[th].new_offset),
            Ndjson(threads[th].rows), "none", NoReply)

\* the batches the threads append: one row at a time
ThreadBatches == {rows \in Batches : Len(rows) = 1}

\* lines 289-298 with line 124, and lines 301-338 when the token is reused;
\* the threads are started by a caller that is between two calls of its own
ThreadAppendRows(th) ==
    /\ threads[th].pc = "idle"
    /\ lastOp.op = "none"
    /\ ~NotOpened(Self)
    /\ \E rows \in ThreadBatches :
           threads' = [threads EXCEPT ![th] =
                          IF NeedsRefresh(Self, now)
                          THEN [ThreadIdle EXCEPT !.pc = "cred", !.rows = rows]
                          ELSE Dispatch(Self, rows)]
    /\ UNCHANGED <<clientVars, now, lastOp, wfc, appVars, instances, sensorVars>>

\* line 126: jwt_auth.get_scoped_token() raises or returns a token
ThreadCredReturns(th) ==
    /\ threads[th].pc = "cred"
    /\ \E cred \in CredOutcomes :
           threads' = [threads EXCEPT ![th] =
                          IF cred = CredFail THEN ThreadIdle
                          ELSE [@ EXCEPT !.pc = "store", !.token = IssuedToken(now)]]
    /\ UNCHANGED <<clientVars, now, lastOp, wfc, appVars, instances, sensorVars>>

\* lines 126-128, then lines 301-338
ThreadStoreToken(th) ==
    /\ threads[th].pc = "store"
    /\ LET c == [Self EXCEPT !.scoped_token = threads[th].token,
                             !.token_expiry = now + TokenReuseWindow]
       IN  /\ ClientBecomes(c)
           /\ threads' = [threads EXCEPT ![th] = Dispatch(c, threads[th].rows)]
    /\ UNCHANGED <<now, lastOp, wfc, appVars, instances, sensorVars>>

\* lines 345-370: the answer to the request in flight is handled
ThreadPostReturns(th) ==
    /\ threads[th].pc = "post"
    /\ \E resp \in AppendResponses :
           /\ WithinBounds(Self, threads[th].rows, resp)
           /\ ClientBecomes(IF resp.status = "2xx" /\ resp.json_ok
                            THEN AfterAppendSuccess(Self, resp, threads[th].new_offset,
                                                    threads[th].rows)
                            ELSE AfterAppendFailure(Self))
    /\ threads' = [threads EXCEPT ![th] = ThreadIdle]
    /\ UNCHANGED <<now, lastOp, wfc, appVars, instances, sensorVars>>

\* a second passes while a token is being obtained
Elapse ==
    /\ \E th \in Threads : threads[th].pc \in {"cred", "store"}
    /\ now < MaxTime + MaxElapse
    /\ now' = now + 1
    /\ UNCHANGED <<clientVars, lastOp, wfc, appVars, threads, instances, sensorVars>>

NextThreads ==
    \/ CallOpenChannel
    \/ Return
    \/ Tick
    \/ Elapse
    \/ \E th \in Threads : ThreadAppendRows(th)
    \/ \E th \in Threads : ThreadCredReturns(th)
    \/ \E th \in Threads : ThreadStoreToken(th)
    \/ \E th \in Threads : ThreadPostReturns(th)

ThreadSpec == Init /\ [][NextThreads]_vars

(***************************************************************************)
(* C25: when append_rows calls overlap on one client, no two requests in   *)
(* flight carry the same offsetToken, and the handling of an answer never  *)
(* lowers offset_token and raises it whenever the append succeeded.        *)
(***************************************************************************)
\* a thread handles the answer to its append
AnswerHandled(th) == threads[th].pc = "post" /\ threads'[th].pc = "idle"

C25_OverlappingAppendsSerialized ==
    /\ [](\A a, b \in Threads :
              (a # b /\ threads[a].pc = "post" /\ threads[b].pc = "post")
                  => InFlight(a).offsetToken # InFlight(b).offsetToken)
    /\ [][\A th \in Threads :
              AnswerHandled(th)
                  => /\ offset_token' >= offset_token
                     /\ stats'.total_batches > stats.total_batches
                            => offset_token' > offset_token]_vars

(***************************************************************************)
(* C26: when several callers need a token while none is cached or the      *)
(* cached one has expired, at most one credential request is in flight     *)
(* (the other callers wait for it), and the cached token is never replaced *)
(* by a token that was obtained before it.                                 *)
(***************************************************************************)
\* the threads whose credential request is in flight
Refreshing == {th \in Threads : threads[th].pc = "cred"}

C26_RefreshIsExclusive ==
    /\ [](Cardinality(Refreshing) <= 1)
    /\ [][scoped_token # NullInt => scoped_token' >= scoped_token]_vars

(***************************************************************************)
(* SnowpipeStreamingClient.__init__, lines 83-87: further clients are      *)
(* constructed, by this process or another, while the clock runs.          *)
(***************************************************************************)
\* no more than this many clients are constructed
MaxInstances == 3

\* the base channel names a configuration may give (absent: the default)
BaseChannels == {DefaultChannel, "ADSB"}

\* the part of the current second that has passed (milliseconds)
SubSeconds == {0, 400, 900}

Construct ==
    /\ Len(instances) < MaxInstances
    /\ \E base \in BaseChannels, ms \in SubSeconds :
           /\ now * 1000 + ms > instances[Len(instances)].constructed
           /\ instances' = Append(instances, Instance(base, now * 1000 + ms))
    /\ UNCHANGED <<clientVars, now, lastOp, wfc, appVars, threads, sensorVars>>

NextConstruct ==
    \/ Construct
    \/ Tick

ConstructSpec == Init /\ [][NextConstruct]_vars

(***************************************************************************)
(* C27: two client instances constructed from configurations with the      *)
(* same base channel name never have the same channel_name.                *)
(***************************************************************************)
C27_ChannelNamesDistinct ==
    \A i, j \in 1..Len(instances) :
        (i # j /\ instances[i].base = instances[j].base)
            => instances[i].channel_name # instances[j].channel_name

(***************************************************************************)
(* C28: a shutdown signal handled at any moment of run(), initialize()     *)
(* included, is followed by run() returning.                               *)
(***************************************************************************)
C28_SignalStopsRun == app_log.signalled ~> (app_pc = "returned")

(***************************************************************************)
(* C29: run() returns 1 without running shutdown() when initialize()       *)
(* fails; once initialization has passed it returns only through           *)
(* shutdown(), which runs exactly once: with 0 when the loop ended because *)
(* running was False, with 1 when an exception ended the loop.             *)
(***************************************************************************)
\* run() returns in this step
RunReturns == app_pc # "returned" /\ app_pc' = "returned"

C29_ShutdownOnceAfterInit ==
    [][/\ RunReturns
            => IF app_pc \in {"start", "init_open"}
               THEN /\ retcode' = 1
                    /\ app_log'.shutdowns = 0
                    /\ lastOp'.outcome # "ok"
               ELSE /\ app_pc \in {"finally", "except"}
                    /\ app_log.shutdowns = 0
                    /\ app_log'.shutdowns = 1
                    /\ retcode' = IF app_pc = "except" THEN 1 ELSE 0
                    /\ app_pc = "finally" => ~running
       /\ app_log'.shutdowns # app_log.shutdowns => RunReturns
       /\ app_pc = "returned"
            => app_pc' = "returned" /\ retcode' = retcode /\ app_log' = app_log]_vars

\* run() has returned 1 after an exception in its loop, having shut down
C29_Witness ==
    /\ app_pc = "returned"
    /\ retcode = 1
    /\ app_log.shutdowns = 1
    /\ app_log.sensor_read

(***************************************************************************)
(* C30: a discover_ingest_host call that fails (request error, JSON        *)
(* without a hostname, empty body) leaves a resolved ingest_host as it     *)
(* was, and a client that could append before the call can append after    *)
(* it.                                                                     *)
(***************************************************************************)
C30_FailedDiscoveryKeepsHost ==
    [][(IsCall("discover_ingest_host") /\ lastOp'.outcome # "ok" /\ Truthy(ingest_host))
        => /\ ingest_host' = ingest_host
           /\ ~NotOpened(Self) => ~NotOpened(Self')]_vars

(***************************************************************************)
(* ADSBSensor._fetch_aircraft_data, lines 118-137.  The clock read at      *)
(* lines 129 and 134 is `now`, in seconds.                                 *)
(***************************************************************************)
\* the age from which a cached document is no longer served (line 134)
CacheWindow == 30

\* the sensor's clock does not run past this
MaxSensorTime == 61

\* the receiver tracks no more than this many aircraft
MaxAircraft == 2

\* what the receiver may answer a successful request with at time t: the
\* JSON object {} or a snapshot of the aircraft it tracks
Feed(t) == {EmptyDocument} \cup {Snapshot(Planes(n), t, 10 * n) : n \in 0..MaxAircraft}

\* how requests.get / raise_for_status / response.json() (lines 125-127) may
\* end: with a parsed document, or with a RequestException (no connection,
\* timeout, HTTP error status)
Responses(t) ==
    {[kind |-> "ok", data |-> d] : d \in Feed(t)} \cup {[kind |-> "failed", data |-> NoData]}

\* _generate_simulated_data, lines 139-172: 5 to 20 aircraft
SimulatedData(t) == {Snapshot(Planes(n), t, m) : n \in {5, 20}, m \in {100000, 999999}}

\* the test of line 134
UsesCache(data, fetch_time, t) == TruthyData(data) /\ (t - fetch_time) < CacheWindow

\* the dict built at line 137
EmptySnapshot(t) == Snapshot(<<>>, t, 0)

Fetched(response, ret, used_cache) ==
    [response |-> response, outcome |-> "returned", ret |-> ret, used_cache |-> used_cache,
     data_before |-> _last_data, time_before |-> _last_fetch_time, at |-> now]

FetchAircraftData ==
    /\ IF simulate
       THEN \* lines 120-121
            /\ \E d \in SimulatedData(now) : fetched' = Fetched("none", d, FALSE)
            /\ UNCHANGED <<_last_data, _last_fetch_time>>
       ELSE \E resp \in Responses(now) :
                IF resp.kind = "ok"
                THEN \* lines 128-130
                     /\ _last_data' = resp.data
                     /\ _last_fetch_time' = now
                     /\ fetched' = Fetched("ok", resp.data, FALSE)
                ELSE \* lines 132-137
                     /\ fetched' =
                            IF UsesCache(_last_data, _last_fetch_time, now)
                            THEN Fetched("failed", _last_data, TRUE)
                            ELSE Fetched("failed", EmptySnapshot(now), FALSE)
                     /\ UNCHANGED <<_last_data, _last_fetch_time>>
    /\ UNCHANGED <<clientVars, now, lastOp, wfc, appVars, threads, instances, simulate>>

\* the time that may pass between two fetches
SensorSteps == {CacheWindow - 1, CacheWindow, CacheWindow + 1}

SensorTick ==
    /\ \E d \in SensorSteps : now + d <= MaxSensorTime /\ now' = now + d
    /\ UNCHANGED <<clientVars, lastOp, wfc, appVars, threads, instances, sensorVars>>

\* a sensor constructed with either value of simulate (line 39, line 308)
InitSensorRun == InitClient /\ app_pc = "idle" /\ simulate \in BOOLEAN

NextSensor ==
    \/ FetchAircraftData
    \/ SensorTick

SensorSpec == InitSensorRun /\ [][NextSensor]_vars

\* a fetch whose request failed found a cached document fetched less than
\* CacheWindow seconds before
FoundFreshCache ==
    /\ fetched.data_before # NoData
    /\ fetched.at - fetched.time_before < CacheWindow

(***************************************************************************)
(* C31: a _fetch_aircraft_data whose request fails does not raise; it      *)
(* returns the last successfully fetched document if and only if there is  *)
(* one and it was fetched less than 30 seconds before, and otherwise a     *)
(* snapshot with an empty aircraft list; the cached document and its       *)
(* fetch time are as they were before the call.                            *)
(***************************************************************************)
C31_FailedFetchServesFreshCache ==
    fetched.response = "failed" =>
        /\ fetched.outcome = "returned"
        /\ fetched.used_cache <=> FoundFreshCache
        /\ fetched.used_cache => fetched.ret = fetched.data_before
        /\ ~fetched.used_cache =>
               /\ fetched.ret.kind = "dict"
               /\ "aircraft" \in fetched.ret.keys
               /\ fetched.ret.aircraft = <<>>
        /\ _last_data = fetched.data_before
        /\ _last_fetch_time = fetched.time_before

====
